---- MODULE Spec2Model ----
(***************************************************************************)
(* Model of the agentic multi-pass video analysis of ai-swim-coach:        *)
(* AgenticSwimCoach.analyze_video (src/src/core/analysis/agentic_coach.py) *)
(* with its helpers FrameRequest.timestamps, _parse_feedback,              *)
(* _compile_feedback and _compile_summary.                                 *)
(*                                                                         *)
(* Time is exact fixed-point arithmetic: one unit is 1/UnitsPerSec second, *)
(* so that 1/fps is exact for the modelled rates and round(t, 2) is a real *)
(* rounding (to a multiple of UnitsPerCenti units).  A frame is identified *)
(* with its timestamp: the extractor returns (timestamp, jpeg) pairs and   *)
(* the jpeg of a given video is determined by the timestamp.               *)
(* A JSON dict key that may be absent is a sequence of length <= 1:        *)
(* << >> is "key absent" (or null), << v >> is the value v.                *)
(***************************************************************************)
EXTENDS Integers, Sequences, FiniteSets, TLC

\* ------------------------------------------------------------------------
\* Bounds of the model and program constants
\* ------------------------------------------------------------------------
\* resolution of the time axis: units in 0.01 s, and in one second
UnitsPerCenti == 6
UnitsPerSec == 100 * UnitsPerCenti
Sec(n) == n * UnitsPerSec

\* AgenticSwimCoach.__init__ defaults / call-site values
max_iterations == 3
\* max_frames_per_request is a constructor parameter (default 10); the model
\* runs the coach configured with a small value
max_frames_per_request == 2
\* frame_requests[:3]
MaxRequestsServed == 3
\* min(fps, 5.0)
FpsCap == 5
\* floating-point addition saturates: below -SpinSecs seconds the model
\* takes t + interval = t
SpinSecs == 2
TFloor == 0 - Sec(SpinSecs)
\* the list built by a diverging FrameRequest.timestamps is kept up to here
TimestampsCap == 8

None == << >>
Some(v) == << v >>
\* dict.get(key, default)
Get(opt, default) == IF opt = << >> THEN default ELSE opt[1]

Min(a, b) == IF a <= b THEN a ELSE b
Max(a, b) == IF a >= b THEN a ELSE b
\* s[:n]
\* a slice that keeps the whole list
TakeAll(s, n) == s
Take(s, n) == SubSeq(s, 1, Min(n, Len(s)))
Range(s) == { s[i] : i \in 1..Len(s) }

RECURSIVE PickIdx(_, _, _)
PickIdx(s, I, k) ==
    IF k > Len(s) THEN << >>
    ELSE IF k \in I THEN << s[k] >> \o PickIdx(s, I, k + 1)
    ELSE PickIdx(s, I, k + 1)
\* the order-preserving sub-lists of s: the extractor skips failed frames
SubSeqs(s) == { PickIdx(s, I, 1) : I \in SUBSET (1..Len(s)) }

RECURSIVE SumSeq(_)
SumSeq(s) == IF s = << >> THEN 0 ELSE Head(s) + SumSeq(Tail(s))

RECURSIVE Flatten(_)
Flatten(ss) == IF ss = << >> THEN << >> ELSE Head(ss) \o Flatten(Tail(ss))

\* ------------------------------------------------------------------------
\* Data model
\* ------------------------------------------------------------------------
\* FeedbackPriority and the priority_order dict of _compile_feedback
FeedbackPriority == {"primary", "secondary", "refinement"}
priority_order(p) ==
    CASE p = "primary" -> 0
      [] p = "secondary" -> 1
      [] p = "refinement" -> 2

TechniqueCategory ==
    {"body_position", "catch_and_pull", "recovery", "kick", "timing",
     "breathing", "turns", "starts"}

\* one raw item of the reply's "feedback" list (a JSON object)
RawFeedback(obs, prio, cat, ts, te, rec) ==
    [observation |-> obs, priority |-> prio, category |-> cat,
     timestamp_start |-> ts, timestamp_end |-> te, recommendation |-> rec]

\* TimestampedFeedback as built by _parse_feedback from one raw item:
\* an unknown category or priority raises ValueError in the Enum
\* constructor and is replaced by the default
TimestampedFeedback(fb) ==
    [category |->
        IF Get(fb.category, "body_position") \in TechniqueCategory
        THEN Get(fb.category, "body_position") ELSE "body_position",
     description |-> Get(fb.observation, ""),
     recommendation |-> Get(fb.recommendation, ""),
     start_seconds |-> Get(fb.timestamp_start, 0),
     end_seconds |-> fb.timestamp_end,
     priority |->
        IF Get(fb.priority, "secondary") \in FeedbackPriority
        THEN Get(fb.priority, "secondary") ELSE "secondary"]

\* a parser that drops the items whose category or priority it does not know
_parse_feedback_known_only(parsed) ==
    LET known == SelectSeq(parsed.feedback,
                    LAMBDA fb :
                        /\ Get(fb.category, "body_position") \in TechniqueCategory
                        /\ Get(fb.priority, "secondary") \in FeedbackPriority)
    IN  [i \in 1..Len(known) |-> TimestampedFeedback(known[i])]

\* _parse_feedback: one item per entry of parsed["feedback"], in order
_parse_feedback(parsed) ==
    [i \in 1..Len(parsed.feedback) |-> TimestampedFeedback(parsed.feedback[i])]

\* one raw item of the reply's "frame_requests" list
RawRequest(s, e, f) == [start_seconds |-> s, end_seconds |-> e, fps |-> f]

\* FrameRequest(...) of the iteration record (lines 376-381): fps as replied
FrameRequest(req) ==
    [start_seconds |-> Get(req.start_seconds, 0),
     end_seconds |-> Get(req.end_seconds, 0),
     fps |-> Get(req.fps, 2)]

\* the request served at the rate the reply asked for
UncappedFrameRequest(req) ==
    [start_seconds |-> Get(req.start_seconds, 0),
     end_seconds |-> Get(req.end_seconds, 0),
     fps |-> Get(req.fps, 2)]

\* FrameRequest(...) built for extraction (lines 404-409): fps capped
CappedFrameRequest(req) ==
    [start_seconds |-> Get(req.start_seconds, 0),
     end_seconds |-> Get(req.end_seconds, 0),
     fps |-> Min(Get(req.fps, 2), FpsCap)]

\* interval = 1.0 / self.fps, for fps # 0
Interval(fps) ==
    IF fps > 0 THEN UnitsPerSec \div fps ELSE 0 - (UnitsPerSec \div (0 - fps))

\* round(t, 2): nearest multiple of 0.01 s, ties to the even multiple
Round2(x) ==
    LET q == x \div UnitsPerCenti
        r == x % UnitsPerCenti
    IN  IF 2 * r < UnitsPerCenti THEN q * UnitsPerCenti
        ELSE IF 2 * r > UnitsPerCenti THEN (q + 1) * UnitsPerCenti
        ELSE IF q % 2 = 0 THEN q * UnitsPerCenti
        ELSE (q + 1) * UnitsPerCenti

\* t += interval in floating point: far from zero the sum no longer changes t
FloatAdd(x, d) == Max(x + d, TFloor)

AgentIteration(n, frames, parsed) ==
    [iteration_number |-> n,
     frames_analyzed |-> Len(frames),
     timestamps |-> frames,
     response_summary |-> Get(parsed.summary, ""),
     frame_requests |->
        [i \in 1..Len(parsed.frame_requests) |->
            FrameRequest(parsed.frame_requests[i])],
     feedback_items |-> _parse_feedback(parsed)]

\* ------------------------------------------------------------------------
\* _compile_feedback
\* ------------------------------------------------------------------------
\* a sort key without the start timestamp
KeyLessPriorityOnly(a, b) ==
    priority_order(a.priority) < priority_order(b.priority)

\* the (priority_order[f.priority], f.start_seconds) sort key, compared
KeyLess(a, b) ==
    \/ priority_order(a.priority) < priority_order(b.priority)
    \/ /\ priority_order(a.priority) = priority_order(b.priority)
       /\ a.start_seconds < b.start_seconds

\* list.sort is stable: an item goes after every item whose key is not
\* greater than its own
RECURSIVE InsertSorted(_, _)
InsertSorted(f, sorted) ==
    IF sorted = << >> THEN << f >>
    ELSE IF KeyLess(f, Head(sorted)) THEN << f >> \o sorted
    ELSE << Head(sorted) >> \o InsertSorted(f, Tail(sorted))

RECURSIVE SortFeedback(_)
SortFeedback(fs) ==
    IF fs = << >> THEN << >>
    ELSE InsertSorted(fs[Len(fs)], SortFeedback(SubSeq(fs, 1, Len(fs) - 1)))

\* lines 567-573: append the items whose description was not seen yet
RECURSIVE AddUnique(_, _)
AddUnique(feedback, earlier) ==
    IF earlier = << >> THEN feedback
    ELSE IF Head(earlier).description \in
                { feedback[i].description : i \in 1..Len(feedback) }
         THEN AddUnique(feedback, Tail(earlier))
         ELSE AddUnique(Append(feedback, Head(earlier)), Tail(earlier))

\* only the last iteration's feedback, sorted
_compile_feedback_last_only(its) ==
    IF its = << >> THEN << >>
    ELSE SortFeedback(its[Len(its)].feedback_items)

_compile_feedback(its) ==
    IF its = << >> THEN << >>
    ELSE SortFeedback(
            AddUnique(its[Len(its)].feedback_items,
                      Flatten([i \in 1..(Len(its) - 1) |->
                                  its[i].feedback_items])))

\* _compile_summary: the last summary and the "Analyzed {total_frames}
\* frames across {len(iterations)} passes" note
_compile_summary(its) ==
    IF its = << >>
    THEN [base |-> "No analysis completed.", total_frames |-> 0, passes |-> 0]
    ELSE [base |-> its[Len(its)].response_summary,
          total_frames |-> SumSeq([i \in 1..Len(its) |-> its[i].frames_analyzed]),
          passes |-> Len(its)]

\* ------------------------------------------------------------------------
\* Inputs: what the collaborators may return
\* ------------------------------------------------------------------------
\* length of the analysed video and the interval 1.0 / initial_fps (0.5 fps)
VideoSecs == 3
VideoDuration == Sec(VideoSecs)
InitialInterval == Sec(1) * 2
\* max_frames=20 of the initial extract_frames_at_fps call
InitialMaxFrames == 20

\* FFmpegVideoProcessor.extract_frames_at_fps: t = 0, interval, ... while
\* t < duration and fewer than max_frames timestamps
RECURSIVE FpsTimestamps(_, _, _, _)
FpsTimestamps(ts, duration, interval, max_frames) ==
    IF ts < duration /\ max_frames > 0
    THEN << ts >> \o FpsTimestamps(ts + interval, duration, interval, max_frames - 1)
    ELSE << >>

\* feedback objects the vision model may reply with
fbA == RawFeedback(Some("d1"), Some("primary"), Some("kick"),
                   Some(Sec(1)), Some(Sec(2)), Some("r1"))
fbB == RawFeedback(Some("d1"), Some("secondary"), Some("kick"),
                   Some(0), None, Some("r2"))
fbC == RawFeedback(Some("d2"), None, Some("flip"),
                   Some(Sec(1)), Some(0), Some("r1"))
fbD == RawFeedback(Some("d3"), Some("urgent"), None, None, None, None)
fbE == RawFeedback(Some("d2"), Some("refinement"), Some("turns"),
                   Some(0), Some(Sec(1)), Some("r2"))
fbF == RawFeedback(Some("d4"), Some("primary"), Some("timing"),
                   Some(Sec(2)), Some(Sec(1)), None)
RawFeedbackItems == {fbA, fbB, fbC, fbD, fbE, fbF}

\* frame requests the vision model may reply with
reqNear == RawRequest(Some(0), Some(Sec(1)), Some(2))
reqFast == RawRequest(Some(Sec(1)), Some(Sec(2)), Some(10))
reqThird == RawRequest(None, Some(Sec(1)), Some(3))
reqInverted == RawRequest(Some(Sec(2)), Some(Sec(1)), None)
reqZeroFps == RawRequest(Some(0), Some(Sec(1)), Some(0))
reqNegativeFps == RawRequest(Some(0), Some(Sec(1)), Some(-1))

RequestLists ==
    {<< >>, <<reqNear>>, <<reqThird>>, <<reqInverted>>,
     <<reqZeroFps>>, <<reqNegativeFps>>,
     <<reqNear, reqInverted, reqFast, reqThird>>}

\* feedback lists replied during a modelled run of the loop
LoopFeedbackLists ==
    {<< >>, <<fbA, fbB>>}

\* the parsed reply dict (the result of _parse_response)
Replies ==
    [summary : {Some("s")},
     need_more_frames : BOOLEAN,
     frame_requests : RequestLists,
     feedback : LoopFeedbackLists]

NoReply ==
    [summary |-> None, need_more_frames |-> FALSE,
     frame_requests |-> << >>, feedback |-> << >>]

\* exceptions of AnthropicVisionClient.analyze_images
VisionErrors == {"RateLimitExceeded", "AnthropicClientError"}

\* what a call of analyze_images may raise for the given images: the
\* Anthropic client also refuses an empty image list ("At least one image is
\* required"); VisionModelClient is a Protocol and another implementation
\* may answer such a call, so a reply stays possible as well
VisionErrorsOn(images) ==
    VisionErrors \cup (IF images = << >> THEN {"ValueError"} ELSE {})

\* ------------------------------------------------------------------------
\* _parse_response: the reply text as a sequence of lexical tokens
\* ------------------------------------------------------------------------
\* the tokens of a reply: the code fence, the language tag, white space,
\* prose without braces or fences, JSON punctuation, literals and strings
\* the three backquotes of a markdown code fence
Fence == "<fence>"
JsonTag == "json"
Ws == "\n"
Prose == "x"
StringTokens ==
    {"\"summary\"", "\"feedback\"", "\"frame_requests\"",
     "\"need_more_frames\"", "\"observation\"", "\"ok\"", "\"d1\""}
LiteralTokens == {"null", "true", "false", "1"}

\* decoded JSON values
JNull == [t |-> "null", v |-> "null"]
JBool(b) == [t |-> "bool", v |-> b]
JNum(n) == [t |-> "num", v |-> n]
JStr(s) == [t |-> "str", v |-> s]
\* a Python str holding reply text
JText(toks) == [t |-> "text", v |-> toks]
JList(items) == [t |-> "list", v |-> items]
\* a dict from its (key, value) pairs in order: a repeated key keeps its
\* last value
JObj(members) ==
    [t |-> "obj",
     v |-> [k \in { members[n][1] : n \in 1..Len(members) } |->
              members[CHOOSE n \in 1..Len(members) :
                         /\ members[n][1] = k
                         /\ \A m \in (n + 1)..Len(members) :
                               members[m][1] # k][2]]]

Literal(tok) ==
    CASE tok = "null" -> JNull
      [] tok = "true" -> JBool("true")
      [] tok = "false" -> JBool("false")
      [] tok = "1" -> JNum("1")

\* the first position from i on that holds no white space
RECURSIVE SkipWs(_, _)
SkipWs(toks, i) ==
    IF i <= Len(toks) /\ toks[i] = Ws THEN SkipWs(toks, i + 1) ELSE i

At(toks, i, tok) == i <= Len(toks) /\ toks[i] = tok

ParseFail == [ok |-> FALSE, v |-> JNull, next |-> 0]
ParseOk(v, next) == [ok |-> TRUE, v |-> v, next |-> next]

\* the JSON decoder: a value starting at position i (white space skipped)
RECURSIVE ParseValue(_, _)
RECURSIVE ParseMembers(_, _, _)
RECURSIVE ParseItems(_, _, _)
ParseValue(toks, i0) ==
    LET i == SkipWs(toks, i0)
    IN  IF i > Len(toks) THEN ParseFail
        ELSE IF toks[i] \in StringTokens THEN ParseOk(JStr(toks[i]), i + 1)
        ELSE IF toks[i] \in LiteralTokens THEN ParseOk(Literal(toks[i]), i + 1)
        ELSE IF toks[i] = "{"
             THEN IF At(toks, SkipWs(toks, i + 1), "}")
                  THEN ParseOk(JObj(<< >>), SkipWs(toks, i + 1) + 1)
                  ELSE ParseMembers(toks, i + 1, << >>)
        ELSE IF toks[i] = "["
             THEN IF At(toks, SkipWs(toks, i + 1), "]")
                  THEN ParseOk(JList(<< >>), SkipWs(toks, i + 1) + 1)
                  ELSE ParseItems(toks, i + 1, << >>)
        ELSE ParseFail

\* "key" : value, then "," and more members or the closing brace
ParseMembers(toks, i0, acc) ==
    LET i == SkipWs(toks, i0)
        c == SkipWs(toks, i + 1)
    IN  IF ~(i <= Len(toks) /\ toks[i] \in StringTokens /\ At(toks, c, ":"))
        THEN ParseFail
        ELSE LET val == ParseValue(toks, c + 1)
                 e == SkipWs(toks, val.next)
                 members == Append(acc, << toks[i], val.v >>)
             IN  IF ~val.ok THEN ParseFail
                 ELSE IF At(toks, e, "}") THEN ParseOk(JObj(members), e + 1)
                 ELSE IF At(toks, e, ",") THEN ParseMembers(toks, e + 1, members)
                 ELSE ParseFail

\* value, then "," and more items or the closing bracket
ParseItems(toks, i0, acc) ==
    LET val == ParseValue(toks, i0)
        e == SkipWs(toks, val.next)
        items == Append(acc, val.v)
    IN  IF ~val.ok THEN ParseFail
        ELSE IF At(toks, e, "]") THEN ParseOk(JList(items), e + 1)
        ELSE IF At(toks, e, ",") THEN ParseItems(toks, e + 1, items)
        ELSE ParseFail

\* json.loads(json_str): the whole text is one JSON value, or
\* JSONDecodeError
json_loads(toks) ==
    LET val == ParseValue(toks, 1)
    IN  IF val.ok /\ SkipWs(toks, val.next) > Len(toks) THEN val
        ELSE ParseFail

\* re.search(r'```(?:json)?\s*(\{.*?\})\s*```', response, re.DOTALL) tried
\* at the fence of position i: the positions of group 1, or << >>
FenceMatchAt(toks, i) ==
    IF ~At(toks, i, Fence) THEN << >>
    ELSE LET open == SkipWs(toks, IF At(toks, i + 1, JsonTag)
                                  THEN i + 2 ELSE i + 1)
             closes == { e \in (open + 1)..Len(toks) :
                            /\ toks[e] = "}"
                            /\ At(toks, SkipWs(toks, e + 1), Fence) }
         IN  IF At(toks, open, "{") /\ closes # {}
             THEN << open, CHOOSE e \in closes : \A f \in closes : e <= f >>
             ELSE << >>

\* the leftmost match of the fence pattern: group 1, or << >>
FenceSearch(toks) ==
    LET starts == { i \in 1..Len(toks) : FenceMatchAt(toks, i) # << >> }
    IN  IF starts = {} THEN << >>
        ELSE LET g == FenceMatchAt(toks,
                         CHOOSE i \in starts : \A k \in starts : i <= k)
             IN  << SubSeq(toks, g[1], g[2]) >>

\* re.search(r'\{.*\}', response, re.DOTALL): from the first "{" to the last
\* "}" after it, or << >>
BraceSearch(toks) ==
    LET opens == { i \in 1..Len(toks) : toks[i] = "{" }
        first == CHOOSE i \in opens : \A k \in opens : i <= k
        closes == { e \in 1..Len(toks) : toks[e] = "}" /\ e > first }
    IN  IF opens = {} \/ closes = {} THEN << >>
        ELSE << SubSeq(toks, first,
                       CHOOSE e \in closes : \A f \in closes : e >= f) >>

\* a fallback dict without the raw text
SentinelEmptySummary(toks) ==
    JObj(<< << "\"summary\"", JText(<< >>) >>,
            << "\"need_more_frames\"", JBool("false") >>,
            << "\"feedback\"", JList(<< >>) >> >>)

\* {"summary": response, "need_more_frames": False, "feedback": []}
Sentinel(toks) ==
    JObj(<< << "\"summary\"", JText(toks) >>,
            << "\"need_more_frames\"", JBool("false") >>,
            << "\"feedback\"", JList(<< >>) >> >>)

_parse_response(toks) ==
    LET json_str == IF FenceSearch(toks) # << >> THEN FenceSearch(toks)
                    ELSE BraceSearch(toks)
    IN  IF json_str = << >> THEN Sentinel(toks)
        ELSE IF json_loads(json_str[1]).ok THEN json_loads(json_str[1]).v
        ELSE Sentinel(toks)

\* ------------------------------------------------------------------------
\* State
\* ------------------------------------------------------------------------
VARIABLES
    pc,                      \* position of analyze_video
    error,                   \* the exception analyze_video raised, if any
    iteration,               \* loop variable of line 321
    initial_frames,
    current_frames,
    all_analyzed_timestamps,
    parsed,
    req_idx,                 \* position in frame_requests[:3] (1-based)
    new_frames,
    t,                       \* FrameRequest.timestamps: t
    timestamps,              \* FrameRequest.timestamps: result
    new_timestamps,
    iterations,              \* result.iterations
    total_frames_analyzed,   \* result.total_frames_analyzed
    timestamped_feedback,    \* result.timestamped_feedback
    final_summary,           \* result.final_summary
    vision_calls,            \* images of every analyze_images call, in order
    extract_log,             \* every extract_frames_at_timestamps call
    args,                    \* video_data, video_duration, stroke_type
    fps_log                  \* every extract_frames_at_fps call

\* the state of the other modelled components
VARIABLES
    response,                \* _parse_response: the reply text
    parse_out,               \* _parse_response: the returned value
    conversation,            \* CoachingSession.conversation
    updated_at,              \* CoachingSession.updated_at
    utcnow,                  \* the clock read by datetime.utcnow()
    add_message_log,         \* (role, content) of every add_message call
    usage_rows,              \* the usage_limits rows of one key and period
    worker,                  \* check_and_increment: the locals of each caller
    usage_allowed,           \* number of calls that returned allowed=True
    call,                    \* concurrent analyze_video calls: their locals
    script                   \* the replies the vision model gives each call

parser_vars == <<response, parse_out>>
session_vars == <<conversation, updated_at, utcnow, add_message_log>>
usage_vars == <<usage_rows, worker, usage_allowed>>
concurrent_vars == <<call, script>>

outside == <<parser_vars, session_vars, usage_vars, concurrent_vars>>

engine ==
    <<pc, error, iteration, initial_frames, current_frames,
      all_analyzed_timestamps, parsed, req_idx, new_frames, t, timestamps,
      new_timestamps, iterations, total_frames_analyzed,
      timestamped_feedback, final_summary, vision_calls, extract_log,
      args, fps_log>>

vars == <<engine, outside>>

\* StrokeType
StrokeType ==
    {"freestyle", "backstroke", "breaststroke", "butterfly", "mixed"}

\* the arguments of a well-formed analyze_video call
ValidArgs ==
    [video_len |-> 1, video_duration |-> VideoDuration,
     stroke_type |-> "freestyle"]

\* no reply is being parsed
ParserIdle ==
    /\ response = << >>
    /\ parse_out = JNull

\* processes serving requests against the same usage_limits table
\* (gunicorn -w 4 in production)
NumWorkers == 2
Workers == 1..NumWorkers
\* check_and_increment calls of one worker
MaxCallsPerWorker == 2
\* limit_max=3 of the analysis routes
limit_max == 3

\* CoachingSession(): no message, updated_at the time of construction
SessionIdle ==
    /\ conversation = << >>
    /\ updated_at = 0
    /\ utcnow = 0
    /\ add_message_log = << >>

IdleWorker(calls) ==
    [pc |-> "idle", limit_id |-> 0, current_count |-> 0, calls |-> calls,
     allowed |-> FALSE, count |-> 0]

\* no usage_limits row for the period and nobody in check_and_increment
UsageIdle ==
    /\ usage_rows = << >>
    /\ worker = [w \in Workers |-> IdleWorker(0)]
    /\ usage_allowed = 0

\* two analyze_video calls on one AgenticSwimCoach instance, and a call
\* that runs alone on an instance of its own
CallIds == {"a", "b", "alone"}
SharedInstance == {"a", "b"}

\* the locals of analyze_video before its first statement (lines 295-300)
StartOfCall ==
    [pc |-> "start", iteration |-> 0, current_frames |-> << >>,
     all_analyzed_timestamps |-> {}, parsed |-> NoReply, req_idx |-> 1,
     new_frames |-> << >>, new_timestamps |-> << >>, iterations |-> << >>,
     total_frames_analyzed |-> 0, timestamped_feedback |-> << >>,
     final_summary |-> [base |-> "", total_frames |-> 0, passes |-> 0]]

\* no concurrent call is modelled
ConcurrentIdle ==
    /\ call = << >>
    /\ script = << >>

OutsideIdle == ParserIdle /\ SessionIdle /\ UsageIdle /\ ConcurrentIdle

\* AgenticAnalysisResult(...) of line 296 and the locals before first use
EngineInit ==
    /\ pc = "start"
    /\ error = "none"
    /\ iteration = 0
    /\ initial_frames = << >>
    /\ current_frames = << >>
    /\ all_analyzed_timestamps = {}
    /\ parsed = NoReply
    /\ req_idx = 1
    /\ new_frames = << >>
    /\ t = 0
    /\ timestamps = << >>
    /\ new_timestamps = << >>
    /\ iterations = << >>
    /\ total_frames_analyzed = 0
    /\ timestamped_feedback = << >>
    /\ final_summary = [base |-> "", total_frames |-> 0, passes |-> 0]
    /\ vision_calls = << >>
    /\ extract_log = << >>
    /\ args = ValidArgs
    /\ fps_log = << >>

Init == EngineInit /\ OutsideIdle

\* ------------------------------------------------------------------------
\* analyze_video
\* ------------------------------------------------------------------------
\* an off-by-one loop bound
InRangeInclusive(i) == i <= max_iterations

\* for iteration in range(self._max_iterations): is there a pass number i?
InRange(i) == i < max_iterations

\* any failure of the model call ends the loop and the result is compiled
OnVisionErrorCompile(kind) == [pc |-> "compile", error |-> kind]

\* where an exception of analyze_images leaves analyze_video: there is no
\* try/except around the call, the exception propagates
OnVisionError(kind) == [pc |-> "raised", error |-> kind]

\* the frames handed to the next pass (line 433)
NextFrames(current, new) == new

\* "=" written for "+="
AddFramesAssign(total, frames) == Len(frames)

\* result.total_frames_analyzed += len(current_frames)
AddFrames(total, frames) == total + Len(frames)

\* lines 312-319: initial sparse extraction
ExtractInitial ==
    /\ pc = "start"
    /\ \E got \in SubSeqs(FpsTimestamps(0, VideoDuration, InitialInterval,
                                        InitialMaxFrames)) :
        /\ initial_frames' = got
        /\ current_frames' = got
        /\ all_analyzed_timestamps' = Range(got)
    /\ iteration' = 0
    /\ pc' = IF InRange(0) THEN "call" ELSE "compile"
    /\ UNCHANGED <<error, parsed, req_idx, new_frames, t, timestamps,
                   new_timestamps, iterations, total_frames_analyzed,
                   timestamped_feedback, final_summary, vision_calls,
                   extract_log>>
    /\ fps_log' = Append(fps_log, [fps_interval |-> InitialInterval,
                                   max_frames |-> InitialMaxFrames])
    /\ UNCHANGED <<args, outside>>

\* _build_user_prompt reads stroke_type.value on the first pass only
\* (lines 478-488): a value that is not a StrokeType member has no .value
PromptRaises(i, stroke_type) == i = 0 /\ stroke_type \notin StrokeType

\* lines 312-316 with FFmpegVideoProcessor: ffprobe fails on a file without
\* video data and extract_frames_at_fps raises RuntimeError
ExtractInitialRaises ==
    /\ pc = "start"
    /\ args.video_len = 0
    /\ fps_log' = Append(fps_log, [fps_interval |-> InitialInterval,
                                   max_frames |-> InitialMaxFrames])
    /\ pc' = "raised"
    /\ error' = "RuntimeError"
    /\ UNCHANGED <<iteration, initial_frames, current_frames,
                   all_analyzed_timestamps, parsed, req_idx, new_frames, t,
                   timestamps, new_timestamps, iterations,
                   total_frames_analyzed, timestamped_feedback,
                   final_summary, vision_calls, extract_log, args, outside>>

\* lines 338-344: building the prompt of the first pass raises
BuildPromptRaises ==
    /\ pc = "call"
    /\ PromptRaises(iteration, args.stroke_type)
    /\ pc' = "raised"
    /\ error' = "AttributeError"
    /\ UNCHANGED <<iteration, initial_frames, current_frames,
                   all_analyzed_timestamps, parsed, req_idx, new_frames, t,
                   timestamps, new_timestamps, iterations,
                   total_frames_analyzed, timestamped_feedback,
                   final_summary, vision_calls, extract_log, args, fps_log,
                   outside>>

\* lines 358-364, analyze_images raises
AnalyzeImagesRaises ==
    /\ pc = "call"
    /\ ~PromptRaises(iteration, args.stroke_type)
    /\ \E kind \in VisionErrorsOn(current_frames) :
        /\ pc' = OnVisionError(kind).pc
        /\ error' = OnVisionError(kind).error
    /\ vision_calls' = Append(vision_calls, current_frames)
    /\ UNCHANGED <<iteration, initial_frames, current_frames,
                   all_analyzed_timestamps, parsed, req_idx, new_frames, t,
                   timestamps, new_timestamps, iterations,
                   total_frames_analyzed, timestamped_feedback,
                   final_summary, extract_log>>
    /\ UNCHANGED <<args, fps_log, outside>>

\* lines 358-402, analyze_images returns: record the iteration, then decide
AnalyzeImagesReturns ==
    /\ pc = "call"
    /\ ~PromptRaises(iteration, args.stroke_type)
    /\ \E reply \in Replies :
        /\ parsed' = reply
        /\ iterations' =
              Append(iterations,
                     AgentIteration(iteration + 1, current_frames, reply))
        /\ pc' = IF ~reply.need_more_frames \/ reply.frame_requests = << >>
                 THEN "compile" ELSE "requests"
    /\ vision_calls' = Append(vision_calls, current_frames)
    /\ total_frames_analyzed' = AddFrames(total_frames_analyzed, current_frames)
    /\ req_idx' = 1
    /\ new_frames' = << >>
    /\ UNCHANGED <<error, iteration, initial_frames, current_frames,
                   all_analyzed_timestamps, t, timestamps, new_timestamps,
                   timestamped_feedback, final_summary, extract_log>>
    /\ UNCHANGED <<args, fps_log, outside>>

\* line 403 (next request of frame_requests[:3]) and lines 111-113 of
\* FrameRequest.timestamps; past the last request, lines
\* 425-433 and the next turn of the for loop
NextRequest ==
    /\ pc = "requests"
    /\ IF req_idx <= Len(Take(parsed.frame_requests, MaxRequestsServed))
       THEN LET fr == CappedFrameRequest(parsed.frame_requests[req_idx])
            IN  /\ IF fr.fps = 0
                   THEN /\ pc' = "raised"
                        /\ error' = "ZeroDivisionError"
                        /\ UNCHANGED <<t, timestamps>>
                   ELSE /\ pc' = "expand"
                        /\ t' = fr.start_seconds
                        /\ timestamps' = << >>
                        /\ UNCHANGED error
                /\ UNCHANGED <<iteration, current_frames>>
       ELSE /\ IF new_frames = << >>
               THEN /\ pc' = "compile"
                    /\ UNCHANGED <<iteration, current_frames>>
               ELSE /\ current_frames' = NextFrames(current_frames, new_frames)
                    /\ iteration' = iteration + 1
                    /\ pc' = IF InRange(iteration + 1) THEN "call" ELSE "compile"
            /\ UNCHANGED <<error, t, timestamps>>
    /\ UNCHANGED <<initial_frames, all_analyzed_timestamps, parsed, req_idx,
                   new_frames, new_timestamps, iterations,
                   total_frames_analyzed, timestamped_feedback,
                   final_summary, vision_calls, extract_log>>
    /\ UNCHANGED <<args, fps_log, outside>>

\* a loop that tests the timestamp before the step, not the current one
InWindowBeforeStep(x, fr) == x - Interval(fr.fps) <= fr.end_seconds

\* while t <= self.end_seconds
InWindow(x, fr) == x <= fr.end_seconds

\* one test of "while t <= self.end_seconds" (line 114); when it fails, the
\* property returns and lines 412-417 filter and cap the timestamps
TimestampsStep ==
    /\ pc = "expand"
    /\ LET fr == CappedFrameRequest(parsed.frame_requests[req_idx])
       IN  IF InWindow(t, fr)
           THEN /\ pc' = "append"
                /\ UNCHANGED <<new_timestamps, req_idx>>
           ELSE LET new == Take(SelectSeq(timestamps,
                                   LAMBDA ts : ts \notin all_analyzed_timestamps),
                                max_frames_per_request)
                IN  /\ new_timestamps' = new
                    /\ IF new # << >>
                       THEN pc' = "extract" /\ UNCHANGED req_idx
                       ELSE pc' = "requests" /\ req_idx' = req_idx + 1
    /\ UNCHANGED <<error, iteration, initial_frames, current_frames,
                   all_analyzed_timestamps, parsed, new_frames, t, timestamps,
                   iterations, total_frames_analyzed, timestamped_feedback,
                   final_summary, vision_calls, extract_log>>
    /\ UNCHANGED <<args, fps_log, outside>>

\* the body of the while loop (lines 115-116); of a list that grows without
\* end the model keeps the first TimestampsCap entries
TimestampsAppend ==
    /\ pc = "append"
    /\ LET fr == CappedFrameRequest(parsed.frame_requests[req_idx])
       IN  /\ timestamps' = IF Len(timestamps) < TimestampsCap
                            THEN Append(timestamps, Round2(t))
                            ELSE timestamps
           /\ t' = FloatAdd(t, Interval(fr.fps))
    /\ pc' = "expand"
    /\ UNCHANGED <<error, iteration, initial_frames, current_frames,
                   all_analyzed_timestamps, parsed, req_idx, new_frames,
                   new_timestamps, iterations, total_frames_analyzed,
                   timestamped_feedback, final_summary, vision_calls,
                   extract_log>>
    /\ UNCHANGED <<args, fps_log, outside>>

\* a set of seen timestamps that is never added to
UpdateAnalyzedNothing(seen, extracted) == seen

\* all_analyzed_timestamps.update(ts for ts, _ in extracted)
UpdateAnalyzed(seen, extracted) == seen \cup Range(extracted)

\* lines 418-423: extract_frames_at_timestamps returns the frames it could
\* extract
ExtractAtTimestamps ==
    /\ pc = "extract"
    /\ \E got \in SubSeqs(new_timestamps) :
        /\ new_frames' = new_frames \o got
        /\ all_analyzed_timestamps' = UpdateAnalyzed(all_analyzed_timestamps, got)
        /\ extract_log' = Append(extract_log,
                                 [pass |-> iteration + 1,
                                  requested |-> new_timestamps,
                                  returned |-> got])
    /\ req_idx' = req_idx + 1
    /\ pc' = "requests"
    /\ UNCHANGED <<error, iteration, initial_frames, current_frames, parsed,
                   t, timestamps, new_timestamps, iterations,
                   total_frames_analyzed, timestamped_feedback,
                   final_summary, vision_calls>>
    /\ UNCHANGED <<args, fps_log, outside>>

\* lines 443-457
CompileResult ==
    /\ pc = "compile"
    /\ timestamped_feedback' = _compile_feedback(iterations)
    /\ final_summary' = _compile_summary(iterations)
    /\ pc' = "returned"
    /\ UNCHANGED <<error, iteration, initial_frames, current_frames,
                   all_analyzed_timestamps, parsed, req_idx, new_frames, t,
                   timestamps, new_timestamps, iterations,
                   total_frames_analyzed, vision_calls, extract_log>>
    /\ UNCHANGED <<args, fps_log, outside>>

Next ==
    \/ ExtractInitial
    \/ AnalyzeImagesRaises
    \/ AnalyzeImagesReturns
    \/ NextRequest
    \/ TimestampsStep
    \/ TimestampsAppend
    \/ ExtractAtTimestamps
    \/ CompileResult

Spec == Init /\ [][Next]_vars

\* the loop steps always run and every awaited collaborator call completes
LiveSpec == Init /\ [][Next]_vars /\ WF_vars(Next)

\* ------------------------------------------------------------------------
\* _compile_feedback and _compile_summary on their own: the state at line 443
\* for the iteration lists of a run of 1..max_iterations passes
\* ------------------------------------------------------------------------
\* total number of feedback items over the passes of one run
MaxCompileFeedback == 4

FlatFeedbackLists ==
    UNION { [1..m -> RawFeedbackItems] : m \in 0..MaxCompileFeedback }

\* the feedback of pass i when the items of flat are split at the cuts
Segment(flat, cuts, n, i) ==
    SubSeq(flat,
           (IF i = 1 THEN 0 ELSE cuts[i - 1]) + 1,
           IF i = n THEN Len(flat) ELSE cuts[i])

\* the reply of pass i of n: every pass but the last asks for more frames
CompileReply(n, i, feedback) ==
    [summary |-> Some("s"),
     need_more_frames |-> i < n,
     frame_requests |-> IF i < n THEN <<reqNear>> ELSE << >>,
     feedback |-> feedback]

InitCompile ==
    /\ pc = "compile"
    /\ error = "none"
    /\ \E n \in 1..max_iterations, flat \in FlatFeedbackLists :
        \E cuts \in [1..(n - 1) -> 0..Len(flat)] :
            /\ \A i \in 1..(n - 2) : cuts[i] <= cuts[i + 1]
            /\ iterations =
                 [i \in 1..n |->
                    AgentIteration(i, << Sec(i - 1) >>,
                        CompileReply(n, i, Segment(flat, cuts, n, i)))]
            /\ iteration = n - 1
            /\ total_frames_analyzed = n
            /\ vision_calls = [i \in 1..n |-> << Sec(i - 1) >>]
            /\ parsed = CompileReply(n, n, Segment(flat, cuts, n, n))
            /\ current_frames = << Sec(n - 1) >>
            /\ all_analyzed_timestamps = { Sec(i - 1) : i \in 1..n }
            /\ extract_log =
                 [i \in 1..(n - 1) |->
                    [pass |-> i, requested |-> << Sec(i) >>,
                     returned |-> << Sec(i) >>]]
    /\ initial_frames = << 0 >>
    /\ req_idx = 1
    /\ new_frames = << >>
    /\ t = 0
    /\ timestamps = << >>
    /\ new_timestamps = << >>
    /\ timestamped_feedback = << >>
    /\ final_summary = [base |-> "", total_frames |-> 0, passes |-> 0]
    /\ args = ValidArgs
    /\ fps_log = << [fps_interval |-> InitialInterval,
                     max_frames |-> InitialMaxFrames] >>
    /\ OutsideIdle

SpecCompile == InitCompile /\ [][CompileResult]_vars

\* ------------------------------------------------------------------------
\* FrameRequest.timestamps on its own: the state at line 410 for a reply with
\* one valid frame request (start <= end, fps > 0)
\* ------------------------------------------------------------------------
\* longest requested window: at the highest rate its list stays below
\* TimestampsCap entries
MaxWindow == ((TimestampsCap - 2) * UnitsPerSec) \div FpsCap
\* times that are not multiples of 0.01 s, below, at and above the half
SubCenti == {0, UnitsPerCenti \div 3, UnitsPerCenti \div 2,
             UnitsPerCenti - 1}
WindowStarts == { c + o : c \in {0, UnitsPerSec \div 2}, o \in SubCenti }
WindowEnds ==
    { e \in { (UnitsPerSec \div 2) * w + o :
                w \in 0..((2 * MaxWindow) \div UnitsPerSec), o \in SubCenti } :
        e <= MaxWindow }
ValidRequests ==
    { RawRequest(Some(w[1]), Some(w[2]), Some(f)) :
        w \in { v \in WindowStarts \X WindowEnds : v[1] <= v[2] },
        f \in 1..FpsCap }

InitTimestamps ==
    /\ pc = "expand"
    /\ error = "none"
    /\ iteration = 0
    /\ initial_frames = << 0 >>
    /\ current_frames = << 0 >>
    /\ all_analyzed_timestamps = {0}
    /\ \E req \in ValidRequests :
        /\ parsed = [summary |-> Some("s"), need_more_frames |-> TRUE,
                     frame_requests |-> << req >>, feedback |-> << >>]
        /\ t = CappedFrameRequest(req).start_seconds
    /\ iterations = << AgentIteration(1, << 0 >>, parsed) >>
    /\ req_idx = 1
    /\ new_frames = << >>
    /\ timestamps = << >>
    /\ new_timestamps = << >>
    /\ total_frames_analyzed = 1
    /\ timestamped_feedback = << >>
    /\ final_summary = [base |-> "", total_frames |-> 0, passes |-> 0]
    /\ vision_calls = << << 0 >> >>
    /\ extract_log = << >>
    /\ args = ValidArgs
    /\ fps_log = << [fps_interval |-> InitialInterval,
                     max_frames |-> InitialMaxFrames] >>
    /\ OutsideIdle

NextTimestamps == TimestampsStep \/ TimestampsAppend

SpecTimestamps == InitTimestamps /\ [][NextTimestamps]_vars

\* ------------------------------------------------------------------------
\* analyze_video called with any arguments, up to the first reply of the
\* vision model
\* ------------------------------------------------------------------------
InputArgs ==
    [video_len : {0, 1},
     video_duration : {0 - Sec(1), 0, VideoDuration},
     stroke_type : {"freestyle", "mixed", "doggy"}]

InitInput ==
    /\ pc = "start"
    /\ error = "none"
    /\ iteration = 0
    /\ initial_frames = << >>
    /\ current_frames = << >>
    /\ all_analyzed_timestamps = {}
    /\ parsed = NoReply
    /\ req_idx = 1
    /\ new_frames = << >>
    /\ t = 0
    /\ timestamps = << >>
    /\ new_timestamps = << >>
    /\ iterations = << >>
    /\ total_frames_analyzed = 0
    /\ timestamped_feedback = << >>
    /\ final_summary = [base |-> "", total_frames |-> 0, passes |-> 0]
    /\ vision_calls = << >>
    /\ extract_log = << >>
    /\ args \in InputArgs
    /\ fps_log = << >>
    /\ OutsideIdle

NextInput ==
    \/ ExtractInitial
    \/ ExtractInitialRaises
    \/ BuildPromptRaises
    \/ AnalyzeImagesRaises
    \/ AnalyzeImagesReturns

SpecInput == InitInput /\ [][NextInput]_vars

\* ------------------------------------------------------------------------
\* _parse_response and the iteration record on their own: the state at line
\* 366, with the reply of the first pass in hand
\* ------------------------------------------------------------------------
\* number of segments (blocks, objects, prose) a modelled reply is made of
MaxSegments == 3

\* JSON objects as the model may write them, and broken ones
oOk == << "{", "\"summary\"", ":", "\"ok\"", "}" >>
oFeedback ==
    << "{", "\"feedback\"", ":", "[", "{", "\"observation\"", ":", "\"d1\"",
       "}", "]", ",", Ws, "\"need_more_frames\"", ":", "false", "}" >>
oFeedbackNull == << "{", "\"feedback\"", ":", "null", "}" >>
oFeedbackItemNotObject == << "{", "\"feedback\"", ":", "[", "1", "]", "}" >>
oRequestsNull == << "{", "\"frame_requests\"", ":", "null", "}" >>
oProse == << "{", Prose, "}" >>
oTrailingComma == << "{", "\"summary\"", ":", "\"ok\"", ",", "}" >>

\* a block fenced with ```json, and a block fenced without a tag
JsonBlock(o) == << Fence, JsonTag, Ws >> \o o \o << Ws, Fence >>
PlainBlock(o) == << Fence, Ws >> \o o \o << Ws, Fence >>

Segments ==
    {<< Prose >>, << "{" >>, << "}" >>}
    \cup {oOk, oFeedback, oFeedbackNull, oFeedbackItemNotObject,
          oRequestsNull, oProse, oTrailingComma}
    \cup { JsonBlock(o) : o \in {oOk, oFeedback, oFeedbackNull, oProse} }
    \cup { PlainBlock(o) : o \in {oOk, oFeedback, oProse} }

\* the segments on separate lines
RECURSIVE JoinLines(_)
JoinLines(segs) ==
    IF Len(segs) = 1 THEN segs[1]
    ELSE segs[1] \o << Ws >> \o JoinLines(Tail(segs))

ReplyTexts ==
    { JoinLines(segs) :
        segs \in UNION { [1..n -> Segments] : n \in 1..MaxSegments } }

\* dict.get(key, default) on a decoded object
JGet(d, key, default) == IF key \in DOMAIN d.v THEN d.v[key] ELSE default

\* what "for x in v: x.get(...)" raises: None, a bool and a number are not
\* iterable; the characters of a str, the keys of a dict and the items of a
\* list that are not objects have no .get
IterError(v) ==
    CASE v.t \in {"null", "bool", "num"} -> "TypeError"
      [] v.t \in {"str", "text"} -> "AttributeError"
      [] v.t = "obj" ->
            IF DOMAIN v.v = {} THEN "none" ELSE "AttributeError"
      [] v.t = "list" ->
            IF \E i \in 1..Len(v.v) : v.v[i].t # "obj"
            THEN "AttributeError" ELSE "none"

Items(v) == IF v.t = "list" THEN v.v ELSE << >>

\* the exception raised while the AgentIteration of lines 370-385 is built:
\* the frame_requests comprehension is evaluated before _parse_feedback
BuildError(d) ==
    IF IterError(JGet(d, "\"frame_requests\"", JList(<< >>))) # "none"
    THEN IterError(JGet(d, "\"frame_requests\"", JList(<< >>)))
    ELSE IterError(JGet(d, "\"feedback\"", JList(<< >>)))

\* AgentIteration(...) of lines 370-385 on the decoded values
JAgentIteration(n, frames, d) ==
    [iteration_number |-> n,
     frames_analyzed |-> Len(frames),
     timestamps |-> frames,
     response_summary |-> JGet(d, "\"summary\"", JStr("\"\"")),
     frame_requests |->
        LET reqs == Items(JGet(d, "\"frame_requests\"", JList(<< >>)))
        IN  [i \in 1..Len(reqs) |->
                [start_seconds |-> JGet(reqs[i], "\"start_seconds\"", JNum("0")),
                 end_seconds |-> JGet(reqs[i], "\"end_seconds\"", JNum("0")),
                 fps |-> JGet(reqs[i], "\"fps\"", JNum("2.0"))]],
     feedback_items |->
        LET fbs == Items(JGet(d, "\"feedback\"", JList(<< >>)))
        IN  [i \in 1..Len(fbs) |->
                [description |-> JGet(fbs[i], "\"observation\"", JStr("\"\"")),
                 recommendation |->
                    JGet(fbs[i], "\"recommendation\"", JStr("\"\"")),
                 start_seconds |->
                    JGet(fbs[i], "\"timestamp_start\"", JNum("0.0")),
                 end_seconds |-> JGet(fbs[i], "\"timestamp_end\"", JNull)]]]

InitParse ==
    /\ pc = "parse"
    /\ error = "none"
    /\ iteration = 0
    /\ initial_frames = << 0 >>
    /\ current_frames = << 0 >>
    /\ all_analyzed_timestamps = {0}
    /\ parsed = NoReply
    /\ req_idx = 1
    /\ new_frames = << >>
    /\ t = 0
    /\ timestamps = << >>
    /\ new_timestamps = << >>
    /\ iterations = << >>
    /\ total_frames_analyzed = 0
    /\ timestamped_feedback = << >>
    /\ final_summary = [base |-> "", total_frames |-> 0, passes |-> 0]
    /\ vision_calls = << << 0 >> >>
    /\ extract_log = << >>
    /\ args = ValidArgs
    /\ fps_log = << [fps_interval |-> InitialInterval,
                     max_frames |-> InitialMaxFrames] >>
    /\ response \in ReplyTexts
    /\ parse_out = JNull
    /\ SessionIdle
    /\ UsageIdle
    /\ ConcurrentIdle

\* line 367
ParseResponse ==
    /\ pc = "parse"
    /\ parse_out' = _parse_response(response)
    /\ pc' = "record"
    /\ UNCHANGED <<error, iteration, initial_frames, current_frames,
                   all_analyzed_timestamps, parsed, req_idx, new_frames, t,
                   timestamps, new_timestamps, iterations,
                   total_frames_analyzed, timestamped_feedback,
                   final_summary, vision_calls, extract_log, args, fps_log,
                   response, session_vars, usage_vars, concurrent_vars>>

\* lines 370-386: the record is built and appended, or building it raises
\* and the exception leaves analyze_video
RecordIteration ==
    /\ pc = "record"
    /\ IF BuildError(parse_out) # "none"
       THEN /\ pc' = "raised"
            /\ error' = BuildError(parse_out)
            /\ UNCHANGED <<iterations, total_frames_analyzed>>
       ELSE /\ pc' = "recorded"
            /\ iterations' =
                 Append(iterations,
                        JAgentIteration(iteration + 1, current_frames, parse_out))
            /\ total_frames_analyzed' =
                 AddFrames(total_frames_analyzed, current_frames)
            /\ UNCHANGED error
    /\ UNCHANGED <<iteration, initial_frames, current_frames,
                   all_analyzed_timestamps, parsed, req_idx, new_frames, t,
                   timestamps, new_timestamps, timestamped_feedback,
                   final_summary, vision_calls, extract_log, args, fps_log,
                   outside>>

NextParse == ParseResponse \/ RecordIteration

SpecParse == InitParse /\ [][NextParse]_vars

\* ------------------------------------------------------------------------
\* the reply of pass k, from the reply text to the returned result: the state
\* at line 366 after k - 1 passes that each obtained one more frame
\* ------------------------------------------------------------------------
\* a reply that asks for more frames
oMore ==
    << "{", "\"need_more_frames\"", ":", "true", ",", "\"frame_requests\"",
       ":", "[", "{", "}", "]", "}" >>

\* reply texts of fewer segments, the asking reply among them
ShortReplyTexts ==
    { JoinLines(segs) :
        segs \in UNION { [1..n -> Segments \cup {oMore}] :
                            n \in 1..(MaxSegments - 1) } }

\* the decoded reply of an earlier pass: it asked for more frames
dMore ==
    JObj(<< << "\"summary\"", JStr("\"ok\"") >>,
            << "\"need_more_frames\"", JBool("true") >>,
            << "\"frame_requests\"", JList(<< JObj(<< >>) >>) >>,
            << "\"feedback\"",
               JList(<< JObj(<< << "\"observation\"", JStr("\"d1\"") >> >>) >>) >> >>)

\* the truth value Python gives a decoded JSON value
Truthy(v) ==
    CASE v.t = "null" -> FALSE
      [] v.t = "bool" -> v.v = "true"
      [] v.t = "num" -> v.v \notin {"0", "0.0"}
      [] v.t = "str" -> v.v # "\"\""
      [] v.t = "text" -> v.v # << >>
      [] v.t = "list" -> v.v # << >>
      [] v.t = "obj" -> DOMAIN v.v # {}

\* a loop that goes on whatever the reply says
NeedMoreAlways(d) == TRUE

\* lines 390 and 398-399: the reply asks for more frames and lists requests
NeedMore(d) ==
    /\ Truthy(JGet(d, "\"need_more_frames\"", JBool("false")))
    /\ Truthy(JGet(d, "\"frame_requests\"", JList(<< >>)))

InitReply ==
    /\ pc = "parse"
    /\ error = "none"
    /\ \E k \in 1..max_iterations :
        /\ iteration = k - 1
        /\ iterations =
             [i \in 1..(k - 1) |-> JAgentIteration(i, << Sec(i - 1) >>, dMore)]
        /\ vision_calls = [i \in 1..k |-> << Sec(i - 1) >>]
        /\ current_frames = << Sec(k - 1) >>
        /\ all_analyzed_timestamps = { Sec(i - 1) : i \in 1..k }
        /\ total_frames_analyzed = k - 1
        /\ extract_log =
             [i \in 1..(k - 1) |->
                [pass |-> i, requested |-> << Sec(i) >>,
                 returned |-> << Sec(i) >>]]
    /\ initial_frames = << 0 >>
    /\ parsed = NoReply
    /\ req_idx = 1
    /\ new_frames = << >>
    /\ t = 0
    /\ timestamps = << >>
    /\ new_timestamps = << >>
    /\ timestamped_feedback = << >>
    /\ final_summary = [base |-> "", total_frames |-> 0, passes |-> 0]
    /\ args = ValidArgs
    /\ fps_log = << [fps_interval |-> InitialInterval,
                     max_frames |-> InitialMaxFrames] >>
    /\ response \in ShortReplyTexts
    /\ parse_out = JNull
    /\ SessionIdle
    /\ UsageIdle
    /\ ConcurrentIdle

\* lines 389-402: leave the loop, or go on to serve the frame requests
CheckNeedMore ==
    /\ pc = "recorded"
    /\ pc' = IF NeedMore(parse_out) THEN "requests" ELSE "compile"
    /\ UNCHANGED <<error, iteration, initial_frames, current_frames,
                   all_analyzed_timestamps, parsed, req_idx, new_frames, t,
                   timestamps, new_timestamps, iterations,
                   total_frames_analyzed, timestamped_feedback,
                   final_summary, vision_calls, extract_log, args, fps_log,
                   outside>>

NextReply ==
    \/ ParseResponse
    \/ RecordIteration
    \/ CheckNeedMore
    \/ CompileResult

SpecReply == InitReply /\ [][NextReply]_vars

\* ------------------------------------------------------------------------
\* CoachingSession.add_message
\* ------------------------------------------------------------------------
\* add_message calls and clock ticks of a modelled session
MaxMessages == 3
MaxClock == 3
Roles == {"user", "assistant"}
Contents == {"q", "a"}

\* ChatMessage(role=role, content=content): a fresh id and the current time
ChatMessage(id, role, content, now) ==
    [id |-> id, role |-> role, content |-> content, timestamp |-> now]

\* a list insert at the front
insert_first(list, x) == << x >> \o list

\* list.append
append(list, x) == Append(list, x)

\* add_message: the clock is read for the message and again for updated_at
add_message(role, content) ==
    /\ Len(conversation) < MaxMessages
    /\ \E later \in utcnow..Min(utcnow + 1, MaxClock) :
        /\ conversation' =
              append(conversation,
                     ChatMessage(Len(conversation) + 1, role, content, utcnow))
        /\ updated_at' = later
        /\ utcnow' = later
    /\ add_message_log' = Append(add_message_log, << role, content >>)
    /\ UNCHANGED <<engine, parser_vars, usage_vars, concurrent_vars>>

\* time passes between two calls
Tick ==
    /\ utcnow < MaxClock
    /\ utcnow' = utcnow + 1
    /\ UNCHANGED <<conversation, updated_at, add_message_log>>
    /\ UNCHANGED <<engine, parser_vars, usage_vars, concurrent_vars>>

NextSession ==
    \/ \E role \in Roles, content \in Contents : add_message(role, content)
    \/ Tick

InitSession == EngineInit /\ OutsideIdle

SpecSession == InitSession /\ [][NextSession]_vars

\* ------------------------------------------------------------------------
\* UsageLimitRepository.check_and_increment called by several processes for
\* the same identifier, resource type and period
\* ------------------------------------------------------------------------
\* lines 89-117: the SELECT and fetchone, then the limit test; without a row
\* the caller goes on to the INSERT, below the limit to the UPDATE
Select(w) ==
    /\ worker[w].pc = "idle"
    /\ worker[w].calls < MaxCallsPerWorker
    /\ IF usage_rows = << >>
       THEN /\ worker' = [worker EXCEPT ![w].pc = "insert",
                                        ![w].calls = @ + 1]
            /\ UNCHANGED usage_allowed
       ELSE \E i \in 1..Len(usage_rows) :
              IF usage_rows[i].usage_count >= limit_max
              THEN /\ worker' = [worker EXCEPT
                                   ![w].calls = @ + 1,
                                   ![w].allowed = FALSE,
                                   ![w].count = usage_rows[i].usage_count]
                   /\ UNCHANGED usage_allowed
              ELSE /\ worker' = [worker EXCEPT
                                   ![w].pc = "update",
                                   ![w].calls = @ + 1,
                                   ![w].limit_id = usage_rows[i].limit_id,
                                   ![w].current_count = usage_rows[i].usage_count]
                   /\ UNCHANGED usage_allowed
    /\ UNCHANGED usage_rows
    /\ UNCHANGED <<engine, parser_vars, session_vars, concurrent_vars>>

\* lines 119-140: UPDATE ... SET usage_count = new_count WHERE limit_id,
\* commit, return True
Update(w) ==
    /\ worker[w].pc = "update"
    /\ LET new_count == worker[w].current_count + 1
       IN  /\ usage_rows' =
                 [i \in 1..Len(usage_rows) |->
                    IF usage_rows[i].limit_id = worker[w].limit_id
                    THEN [usage_rows[i] EXCEPT !.usage_count = new_count]
                    ELSE usage_rows[i]]
           /\ worker' = [worker EXCEPT ![w].pc = "idle",
                                       ![w].allowed = TRUE,
                                       ![w].count = new_count]
    /\ usage_allowed' = usage_allowed + 1
    /\ UNCHANGED <<engine, parser_vars, session_vars, concurrent_vars>>

\* lines 142-178: INSERT a row with usage_count 1 and a fresh limit_id,
\* commit, return True
Insert(w) ==
    /\ worker[w].pc = "insert"
    /\ usage_rows' =
          Append(usage_rows,
                 [limit_id |-> w * (MaxCallsPerWorker + 1) + worker[w].calls,
                  usage_count |-> 1])
    /\ worker' = [worker EXCEPT ![w].pc = "idle",
                                ![w].allowed = TRUE,
                                ![w].count = 1]
    /\ usage_allowed' = usage_allowed + 1
    /\ UNCHANGED <<engine, parser_vars, session_vars, concurrent_vars>>

NextUsage == \E w \in Workers : Select(w) \/ Update(w) \/ Insert(w)

InitUsage == EngineInit /\ OutsideIdle

SpecUsage == InitUsage /\ [][NextUsage]_vars

\* ------------------------------------------------------------------------
\* analyze_video called twice, concurrently, on one instance: the coroutines
\* interleave at their await points; every local of analyze_video is a field
\* of call[c], the instance holds the configuration only (lines 267-272)
\* ------------------------------------------------------------------------
\* the list as a function of the request alone
RECURSIVE TimestampsFrom(_, _)
TimestampsFrom(x, fr) ==
    IF x <= fr.end_seconds
    THEN << Round2(x) >> \o TimestampsFrom(x + Interval(fr.fps), fr)
    ELSE << >>

\* replies of a scripted vision model
rNear ==
    [summary |-> Some("s1"), need_more_frames |-> TRUE,
     frame_requests |-> << reqNear >>, feedback |-> << fbA, fbB >>]
rThird ==
    [summary |-> Some("s2"), need_more_frames |-> TRUE,
     frame_requests |-> << reqThird, reqNear >>, feedback |-> << fbE >>]
rStop ==
    [summary |-> Some("s3"), need_more_frames |-> FALSE,
     frame_requests |-> << >>, feedback |-> << fbC >>]

\* what the vision model answers on passes 1..max_iterations of one call:
\* nothing is asked after the reply that ends the loop
Scripts ==
    { sc \in [1..max_iterations -> {rNear, rThird, rStop}] :
        /\ sc[1] # rThird
        /\ \A i \in 1..(max_iterations - 1) :
              sc[i] = rStop => sc[i + 1] = rStop }

\* an analyzed-timestamp set kept on the instance and shared by its calls
AnalyzedOnInstance(c, calls) ==
    IF c \in SharedInstance
    THEN UNION { calls[d].all_analyzed_timestamps : d \in SharedInstance }
    ELSE calls[c].all_analyzed_timestamps

\* all_analyzed_timestamps as call c reads it: a local of the call (line 319)
Analyzed(c, calls) == calls[c].all_analyzed_timestamps

\* lines 312-319
CallExtractInitial(c) ==
    /\ call[c].pc = "start"
    /\ LET got == FpsTimestamps(0, VideoDuration, InitialInterval,
                                InitialMaxFrames)
       IN  call' = [call EXCEPT
                      ![c].current_frames = got,
                      ![c].all_analyzed_timestamps = Range(got),
                      ![c].pc = IF InRange(0) THEN "call" ELSE "compile"]
    /\ UNCHANGED <<script, engine, parser_vars, session_vars, usage_vars>>

\* lines 358-402: the reply of this pass, the iteration record, the decision
CallAnalyzeImages(c) ==
    /\ call[c].pc = "call"
    /\ LET reply == script[c][call[c].iteration + 1]
       IN  call' = [call EXCEPT
                      ![c].parsed = reply,
                      ![c].iterations =
                          Append(@, AgentIteration(call[c].iteration + 1,
                                                   call[c].current_frames,
                                                   reply)),
                      ![c].total_frames_analyzed =
                          AddFrames(@, call[c].current_frames),
                      ![c].req_idx = 1,
                      ![c].new_frames = << >>,
                      ![c].pc =
                          IF ~reply.need_more_frames
                             \/ reply.frame_requests = << >>
                          THEN "compile" ELSE "requests"]
    /\ UNCHANGED <<script, engine, parser_vars, session_vars, usage_vars>>

\* lines 403-416 for the next request: its timestamps, filtered and capped;
\* past the last request, lines 425-433 and the next turn of the loop
CallNextRequest(c) ==
    /\ call[c].pc = "requests"
    /\ LET me == call[c]
       IN  IF me.req_idx <= Len(Take(me.parsed.frame_requests,
                                     MaxRequestsServed))
           THEN LET fr == CappedFrameRequest(
                              me.parsed.frame_requests[me.req_idx])
                    new == Take(SelectSeq(TimestampsFrom(fr.start_seconds, fr),
                                    LAMBDA ts : ts \notin Analyzed(c, call)),
                                max_frames_per_request)
                IN  call' = [call EXCEPT
                               ![c].new_timestamps = new,
                               ![c].pc = IF new # << >> THEN "extract"
                                         ELSE "requests",
                               ![c].req_idx = IF new # << >> THEN @ ELSE @ + 1]
           ELSE IF me.new_frames = << >>
                THEN call' = [call EXCEPT ![c].pc = "compile"]
                ELSE call' = [call EXCEPT
                                ![c].current_frames =
                                    NextFrames(@, me.new_frames),
                                ![c].iteration = @ + 1,
                                ![c].pc = IF InRange(me.iteration + 1)
                                          THEN "call" ELSE "compile"]
    /\ UNCHANGED <<script, engine, parser_vars, session_vars, usage_vars>>

\* lines 417-423: the awaited extraction returns the requested frames
CallExtractAtTimestamps(c) ==
    /\ call[c].pc = "extract"
    /\ call' = [call EXCEPT
                  ![c].new_frames = @ \o call[c].new_timestamps,
                  ![c].all_analyzed_timestamps =
                      @ \cup Range(call[c].new_timestamps),
                  ![c].req_idx = @ + 1,
                  ![c].pc = "requests"]
    /\ UNCHANGED <<script, engine, parser_vars, session_vars, usage_vars>>

\* lines 443-457
CallCompileResult(c) ==
    /\ call[c].pc = "compile"
    /\ call' = [call EXCEPT
                  ![c].timestamped_feedback =
                      _compile_feedback(call[c].iterations),
                  ![c].final_summary = _compile_summary(call[c].iterations),
                  ![c].pc = "returned"]
    /\ UNCHANGED <<script, engine, parser_vars, session_vars, usage_vars>>

\* the vision model gives the call that runs alone the replies it gives "a"
InitConcurrent ==
    /\ EngineInit /\ ParserIdle /\ SessionIdle /\ UsageIdle
    /\ call = [c \in CallIds |-> StartOfCall]
    /\ \E sa \in Scripts, sb \in Scripts :
          script = [c \in CallIds |-> IF c = "b" THEN sb ELSE sa]

NextConcurrent ==
    \E c \in CallIds :
        \/ CallExtractInitial(c)
        \/ CallAnalyzeImages(c)
        \/ CallNextRequest(c)
        \/ CallExtractAtTimestamps(c)
        \/ CallCompileResult(c)

SpecConcurrent == InitConcurrent /\ [][NextConcurrent]_vars

\* ------------------------------------------------------------------------
\* the follow-up extraction of pass k on its own: the state at line 402 for a
\* reply that asks for more frames, after k - 1 passes that each served one
\* request and obtained one frame
\* ------------------------------------------------------------------------
\* a wide range at twice the highest served rate
reqWide == RawRequest(Some(0), Some(MaxWindow), Some(2 * FpsCap))
\* a range that starts half-way between two multiples of 0.01 s
reqOff ==
    RawRequest(Some(Sec(1) + UnitsPerCenti \div 2), Some(Sec(2)),
               Some(FpsCap + 2))

\* a range whose end lies less than one sampling interval before its start
reqInvertedNear == RawRequest(Some(Sec(1) + Sec(1) \div 5), Some(Sec(1)), None)

FollowUpRequests ==
    {reqNear, reqInvertedNear, reqWide, reqOff, reqZeroFps, reqNegativeFps}

\* replies list more ranges than are served
FollowUpRequestLists ==
    UNION { [1..n -> FollowUpRequests] : n \in 1..(MaxRequestsServed + 1) }

InitialFrames ==
    FpsTimestamps(0, VideoDuration, InitialInterval, InitialMaxFrames)

\* the reply of an earlier pass
EarlierReply ==
    [summary |-> Some("s"), need_more_frames |-> TRUE,
     frame_requests |-> << reqNear >>, feedback |-> << >>]

\* the extractor calls of passes 1..n (lines 403-423 for EarlierReply): of
\* the timestamps asked for, the extractor returned the first
RECURSIVE EarlierLog(_)
EarlierLog(n) ==
    IF n = 0 THEN << >>
    ELSE LET log == EarlierLog(n - 1)
             seen == Range(InitialFrames)
                        \cup UNION { Range(log[m].returned) : m \in 1..(n - 1) }
             req == Take(SelectSeq(TimestampsFrom(0, CappedFrameRequest(reqNear)),
                                   LAMBDA ts : ts \notin seen),
                         max_frames_per_request)
         IN  Append(log, [pass |-> n, requested |-> req,
                          returned |-> Take(req, 1)])

\* current_frames of pass i (lines 318 and 433)
FramesOfPass(i, log) == IF i = 1 THEN InitialFrames ELSE log[i - 1].returned

InitFollowUp ==
    /\ pc = "requests"
    /\ error = "none"
    /\ \E k \in 1..max_iterations, reqs \in FollowUpRequestLists :
        LET log == EarlierLog(k - 1)
            reply == [summary |-> Some("s"), need_more_frames |-> TRUE,
                      frame_requests |-> reqs, feedback |-> << >>]
        IN  /\ iteration = k - 1
            /\ parsed = reply
            /\ extract_log = log
            /\ current_frames = FramesOfPass(k, log)
            /\ all_analyzed_timestamps =
                 Range(InitialFrames)
                    \cup UNION { Range(log[m].returned) : m \in 1..(k - 1) }
            /\ iterations =
                 [i \in 1..k |->
                    AgentIteration(i, FramesOfPass(i, log),
                                   IF i = k THEN reply ELSE EarlierReply)]
            /\ vision_calls = [i \in 1..k |-> FramesOfPass(i, log)]
            /\ total_frames_analyzed =
                 SumSeq([i \in 1..k |-> Len(FramesOfPass(i, log))])
    /\ initial_frames = InitialFrames
    /\ req_idx = 1
    /\ new_frames = << >>
    /\ t = 0
    /\ timestamps = << >>
    /\ new_timestamps = << >>
    /\ timestamped_feedback = << >>
    /\ final_summary = [base |-> "", total_frames |-> 0, passes |-> 0]
    /\ args = ValidArgs
    /\ fps_log = << [fps_interval |-> InitialInterval,
                     max_frames |-> InitialMaxFrames] >>
    /\ OutsideIdle

NextFollowUp ==
    \/ NextRequest
    \/ TimestampsStep
    \/ TimestampsAppend
    \/ ExtractAtTimestamps

SpecFollowUp == InitFollowUp /\ [][NextFollowUp]_vars

\* ------------------------------------------------------------------------
\* _parse_feedback on its own: the state at line 368 of the first pass, with
\* a parsed reply that holds any feedback list and asks for nothing more
\* ------------------------------------------------------------------------
InitFeedback ==
    /\ pc = "reply"
    /\ error = "none"
    /\ iteration = 0
    /\ initial_frames = InitialFrames
    /\ current_frames = InitialFrames
    /\ all_analyzed_timestamps = Range(InitialFrames)
    /\ \E feedback \in FlatFeedbackLists :
          parsed = [summary |-> Some("s"), need_more_frames |-> FALSE,
                    frame_requests |-> << >>, feedback |-> feedback]
    /\ req_idx = 1
    /\ new_frames = << >>
    /\ t = 0
    /\ timestamps = << >>
    /\ new_timestamps = << >>
    /\ iterations = << >>
    /\ total_frames_analyzed = 0
    /\ timestamped_feedback = << >>
    /\ final_summary = [base |-> "", total_frames |-> 0, passes |-> 0]
    /\ vision_calls = << InitialFrames >>
    /\ extract_log = << >>
    /\ args = ValidArgs
    /\ fps_log = << [fps_interval |-> InitialInterval,
                     max_frames |-> InitialMaxFrames] >>
    /\ OutsideIdle

\* lines 369-400 for the parsed reply in hand: record the pass, then decide
RecordReply ==
    /\ pc = "reply"
    /\ iterations' =
          Append(iterations,
                 AgentIteration(iteration + 1, current_frames, parsed))
    /\ total_frames_analyzed' = AddFrames(total_frames_analyzed, current_frames)
    /\ pc' = IF ~parsed.need_more_frames \/ parsed.frame_requests = << >>
             THEN "compile" ELSE "requests"
    /\ req_idx' = 1
    /\ new_frames' = << >>
    /\ UNCHANGED <<error, iteration, initial_frames, current_frames,
                   all_analyzed_timestamps, parsed, t, timestamps,
                   new_timestamps, timestamped_feedback, final_summary,
                   vision_calls, extract_log, args, fps_log, outside>>

NextFeedback == RecordReply \/ CompileResult

SpecFeedback == InitFeedback /\ [][NextFeedback]_vars

\* ------------------------------------------------------------------------
\* Properties
\* ------------------------------------------------------------------------
Returned == pc = "returned"
Raised == pc = "raised"
Descriptions(fs) == { fs[i].description : i \in 1..Len(fs) }

\* C1: when the model call succeeded on passes 1..N (N >= 1) and the rate
\* limit is hit on pass N+1, analyze_video does not fail (it returns the N
\* recorded passes as a partial result).
C1_RateLimitAfterProgressIsPartial ==
    (error = "RateLimitExceeded" /\ Len(iterations) >= 1
        /\ Len(vision_calls) = Len(iterations) + 1)
    => ~Raised

\* C2: when the first analyze_images call fails (rate limit or any other
\* provider error), analyze_video has raised, no result was compiled and the
\* vision client was called exactly once.
C2_FirstCallFailureRaises ==
    (error \in VisionErrors /\ iterations = << >>)
    => /\ Raised
       /\ Len(vision_calls) = 1
       /\ timestamped_feedback = << >>
       /\ final_summary.passes = 0 /\ final_summary.base = ""

C2_Witness ==
    /\ Raised
    /\ error = "RateLimitExceeded"
    /\ iterations = << >>
    /\ initial_frames # << >>
    /\ vision_calls = << initial_frames >>

\* the frames the extractor has returned before pass k: the initial sparse
\* frames and the frames of the follow-up extractions of passes 1..k-1
RECURSIVE ReturnedBefore(_, _)
ReturnedBefore(log, k) ==
    IF log = << >> THEN << >>
    ELSE (IF Head(log).pass < k THEN Head(log).returned ELSE << >>)
         \o ReturnedBefore(Tail(log), k)

Accumulated(k) == initial_frames \o ReturnedBefore(extract_log, k)

\* C3: on every pass k the images sent to analyze_images are all the frames
\* accumulated so far (initial frames and the frames of every earlier
\* follow-up extraction), not only the newly extracted ones.
C3_AllAccumulatedFramesSent ==
    \A k \in 1..Len(vision_calls) :
        Range(vision_calls[k]) = Range(Accumulated(k))

\* C4: the number of recorded iterations and the number of analyze_images
\* calls never exceed max_iterations.
C4_IterationsBounded ==
    /\ Len(iterations) <= max_iterations
    /\ Len(vision_calls) <= max_iterations

C4_Witness ==
    /\ Returned
    /\ Len(iterations) = max_iterations
    /\ Len(vision_calls) = max_iterations
    /\ parsed.need_more_frames
    /\ new_frames # << >>

\* C5: whatever the replies and the extractor results (zero and negative fps
\* included), analyze_video eventually returns or raises.
C5_Terminates == <>(Returned \/ Raised)

\* C6: the compiled feedback never holds two entries with the same
\* description text.
C6_NoDuplicateDescriptions ==
    Returned =>
        \A i, j \in 1..Len(timestamped_feedback) :
            i # j => timestamped_feedback[i].description
                        # timestamped_feedback[j].description

\* the last pass that reports description d
LatestWith(d) ==
    CHOOSE k \in 1..Len(iterations) :
        /\ d \in Descriptions(iterations[k].feedback_items)
        /\ \A m \in (k + 1)..Len(iterations) :
              d \notin Descriptions(iterations[m].feedback_items)

\* C7: for a description reported by several passes, the compiled feedback
\* keeps the instance of the latest of those passes: every compiled entry is
\* an item of the last pass that reports its description.
C7_LatestInstanceKept ==
    Returned =>
        \A i \in 1..Len(timestamped_feedback) :
            timestamped_feedback[i] \in
                Range(iterations[LatestWith(timestamped_feedback[i].description)]
                        .feedback_items)

\* C8: no observation is lost and none is invented: the descriptions of the
\* compiled feedback are exactly the descriptions reported by the recorded
\* passes, and every compiled entry is an item of some recorded pass.
C8_NoObservationLost ==
    Returned =>
        /\ Descriptions(timestamped_feedback)
             = UNION { Descriptions(iterations[k].feedback_items) :
                         k \in 1..Len(iterations) }
        /\ \A i \in 1..Len(timestamped_feedback) :
              \E k \in 1..Len(iterations) :
                 timestamped_feedback[i] \in Range(iterations[k].feedback_items)

C8_Witness ==
    /\ Returned
    /\ Len(iterations) >= 2
    /\ \E d \in Descriptions(iterations[1].feedback_items) :
          /\ d \notin Descriptions(iterations[Len(iterations)].feedback_items)
          /\ d \in Descriptions(timestamped_feedback)

\* C9: the compiled feedback is ordered by priority rank and, within one
\* priority, by start_seconds ascending.
C9_SortedByPriorityThenStart ==
    Returned =>
        \A i \in 1..(Len(timestamped_feedback) - 1) :
            LET a == timestamped_feedback[i]
                b == timestamped_feedback[i + 1]
            IN  \/ priority_order(a.priority) < priority_order(b.priority)
                \/ /\ priority_order(a.priority) = priority_order(b.priority)
                   /\ a.start_seconds <= b.start_seconds

C9_Witness ==
    /\ Returned
    /\ Len(timestamped_feedback) >= 3
    /\ \E i, j \in 1..Len(iterations[Len(iterations)].feedback_items) :
          LET fs == iterations[Len(iterations)].feedback_items
          IN  /\ i < j
              /\ fs[i].priority = fs[j].priority
              /\ fs[i].start_seconds > fs[j].start_seconds
    /\ \E i \in 1..Len(timestamped_feedback) :
          timestamped_feedback[i].priority = "refinement"

\* C10: total_frames_analyzed never decreases, it equals the sum of
\* frames_analyzed over the recorded iterations, and the frame count of the
\* summary note of a returned result is that same sum.
C10_TotalFramesIsSum ==
    /\ [](total_frames_analyzed
            = SumSeq([k \in 1..Len(iterations) |-> iterations[k].frames_analyzed]))
    /\ [](Returned => final_summary.total_frames = total_frames_analyzed)
    /\ [][total_frames_analyzed' >= total_frames_analyzed]_vars

C10_Witness ==
    /\ Returned
    /\ Len(iterations) >= 2
    /\ iterations[1].frames_analyzed >= 2
    /\ total_frames_analyzed > iterations[Len(iterations)].frames_analyzed
    /\ final_summary.total_frames = total_frames_analyzed

\* the values of the blocks fenced with ```json that hold valid JSON
JsonBlockValues(toks) ==
    { json_loads(SubSeq(toks, a, b)).v :
        <<a, b>> \in
          { w \in (1..Len(toks)) \X (1..Len(toks)) :
              /\ w[1] >= 3 /\ w[1] <= w[2]
              /\ \E i \in 1..(w[1] - 2) :
                    /\ toks[i] = Fence /\ toks[i + 1] = JsonTag
                    /\ SkipWs(toks, i + 2) = w[1]
              /\ toks[w[1]] = "{" /\ toks[w[2]] = "}"
              /\ json_loads(SubSeq(toks, w[1], w[2])).ok
              /\ At(toks, SkipWs(toks, w[2] + 1), Fence) } }

\* some stretch of the reply is a valid JSON object
HasValidJson(toks) ==
    \E a, b \in 1..Len(toks) :
        /\ a < b /\ toks[a] = "{" /\ toks[b] = "}"
        /\ json_loads(SubSeq(toks, a, b)).ok

Parsed == pc \in {"record", "recorded", "raised"}

\* C11: whatever the reply text, parsing it and building the AgentIteration
\* from the returned dict raises nothing: no exception leaves analyze_video
\* between the reply and the recorded iteration.
C11_ParsedReplyIsUsable ==
    Parsed => (error = "none" /\ BuildError(parse_out) = "none")

\* C12: when the reply holds a block fenced with ```json whose contents are
\* valid JSON, _parse_response returns the decoded value of such a block,
\* whatever precedes or follows it.
C12_JsonFenceWins ==
    (Parsed /\ JsonBlockValues(response) # {})
    => parse_out \in JsonBlockValues(response)

\* C13: when no stretch of the reply is a valid JSON object, _parse_response
\* returns the sentinel dict: summary the whole raw reply, need_more_frames
\* false, feedback the empty list.
C13_NoJsonGivesSentinel ==
    (Parsed /\ ~HasValidJson(response))
    => /\ parse_out = Sentinel(response)
       /\ JGet(parse_out, "\"summary\"", JNull) = JText(response)
       /\ JGet(parse_out, "\"need_more_frames\"", JNull) = JBool("false")
       /\ JGet(parse_out, "\"feedback\"", JNull) = JList(<< >>)

C13_Witness ==
    /\ pc = "recorded"
    /\ ~HasValidJson(response)
    /\ FenceSearch(response) # << >>
    /\ \E i \in 1..Len(response) : response[i] = JsonTag
    /\ iterations[1].response_summary = JText(response)

\* the request being expanded and whether its while loop has ended
ExpandedRequest == FrameRequest(parsed.frame_requests[1])
TimestampsDone == pc \in {"extract", "requests"}

\* C14: for a valid request (start <= end, fps > 0) the list built by
\* FrameRequest.timestamps is non-decreasing, its first element is start
\* rounded to 2 decimals, every element is at most end rounded to 2
\* decimals, and the finished list is a function of (start, end, fps) alone.
C14_TimestampsWithinWindow ==
    /\ \A i \in 1..(Len(timestamps) - 1) : timestamps[i] <= timestamps[i + 1]
    /\ timestamps # << >> =>
          timestamps[1] = Round2(ExpandedRequest.start_seconds)
    /\ \A i \in 1..Len(timestamps) :
          timestamps[i] <= Round2(ExpandedRequest.end_seconds)
    /\ TimestampsDone =>
          /\ timestamps # << >>
          /\ timestamps
               = TimestampsFrom(ExpandedRequest.start_seconds, ExpandedRequest)

C14_Witness ==
    /\ TimestampsDone
    /\ Len(timestamps) >= 3
    /\ ExpandedRequest.start_seconds # Round2(ExpandedRequest.start_seconds)
    /\ ExpandedRequest.end_seconds # Round2(ExpandedRequest.end_seconds)
    /\ timestamps[Len(timestamps)] = Round2(ExpandedRequest.end_seconds)

\* the spec's input contract: video bytes non-empty, video_duration > 0,
\* stroke type one of the five StrokeType values
InvalidInput ==
    \/ args.video_len = 0
    \/ args.video_duration <= 0
    \/ args.stroke_type \notin StrokeType

\* C15: for a call with invalid input (empty video, video_duration <= 0 or a
\* stroke type outside StrokeType) no collaborator is ever called: no
\* extract_frames_at_fps, no extract_frames_at_timestamps, no analyze_images.
C15_InvalidInputRejectedFirst ==
    InvalidInput =>
        /\ fps_log = << >>
        /\ extract_log = << >>
        /\ vision_calls = << >>

\* C16: when the initial sparse extraction returned zero frames, no
\* iteration is ever recorded and no result is returned (the analysis ends
\* in a raise), whatever the vision client does with the empty image list.
C16_ZeroInitialFramesIsHardFailure ==
    (pc # "start" /\ initial_frames = << >>)
    => /\ iterations = << >>
       /\ pc \in {"call", "raised"}

\* AgenticAnalysisResult.to_standard_result builds, per item,
\* TimeRange(Timestamp(start), Timestamp(end_seconds or start_seconds)):
\* Timestamp raises for a negative value and TimeRange when end < start
to_standard_result_raises(tfs) ==
    \E i \in 1..Len(tfs) :
        LET start == tfs[i].start_seconds
            end == IF Get(tfs[i].end_seconds, 0) = 0 THEN start
                   ELSE tfs[i].end_seconds[1]
        IN  start < 0 \/ end < 0 \/ end < start

StartNotAfterEnd(tf) ==
    tf.end_seconds # None => tf.start_seconds <= tf.end_seconds[1]

\* the AgenticAnalysisResult a call returns
ResultOf(c) ==
    [iterations |-> call[c].iterations,
     total_frames_analyzed |-> call[c].total_frames_analyzed,
     timestamped_feedback |-> call[c].timestamped_feedback,
     final_summary |-> call[c].final_summary]

\* C17: a call that runs concurrently with another call on the same
\* instance, interleaved in any way, returns the result that a call running
\* alone returns for the same collaborator replies.
C17_ConcurrentCallsDoNotInterfere ==
    (call["a"].pc = "returned" /\ call["alone"].pc = "returned")
    => ResultOf("a") = ResultOf("alone")

C17_Witness ==
    /\ call["a"].pc = "returned"
    /\ call["alone"].pc = "returned"
    /\ call["b"].pc = "extract"
    /\ Len(call["a"].iterations) = max_iterations
    /\ script["a"] # script["b"]
    /\ call["a"].all_analyzed_timestamps
          \cap Range(call["b"].new_timestamps) # {}

\* C18: the conversation holds exactly one message per add_message call, in
\* call order, with the role and content given; a step never changes,
\* removes or reorders the messages already there; updated_at never
\* decreases (the clock read by utcnow() does not step back).
C18_ConversationAppendOnly ==
    /\ [](/\ Len(conversation) = Len(add_message_log)
          /\ \A i \in 1..Len(conversation) :
                /\ conversation[i].role = add_message_log[i][1]
                /\ conversation[i].content = add_message_log[i][2])
    /\ [][/\ Len(conversation') >= Len(conversation)
          /\ SubSeq(conversation', 1, Len(conversation)) = conversation
          /\ updated_at' >= updated_at]_vars

C18_Witness ==
    /\ Len(conversation) = MaxMessages
    /\ conversation[1].role = "user" /\ conversation[2].role = "assistant"
    /\ conversation[1].content # conversation[3].content
    /\ conversation[1].timestamp < conversation[3].timestamp
    /\ updated_at > conversation[3].timestamp

\* nobody is inside check_and_increment
Quiescent == \A w \in Workers : worker[w].pc = "idle"

\* C19: whatever the interleaving of the callers, once every call has
\* returned the number of calls that returned allowed=True is at most
\* limit_max and every stored usage_count equals that number.
C19_CheckAndIncrementAtomic ==
    Quiescent =>
        /\ usage_allowed <= limit_max
        /\ \A i \in 1..Len(usage_rows) :
              usage_rows[i].usage_count = usage_allowed

\* C20: every TimestampedFeedback of every recorded iteration and of the
\* compiled result has start_seconds <= end_seconds when end_seconds is
\* present, and to_standard_result of a returned result does not raise.
C20_FeedbackStartNotAfterEnd ==
    /\ \A k \in 1..Len(iterations) :
          \A i \in 1..Len(iterations[k].feedback_items) :
             StartNotAfterEnd(iterations[k].feedback_items[i])
    /\ \A i \in 1..Len(timestamped_feedback) :
          StartNotAfterEnd(timestamped_feedback[i])
    /\ Returned => ~to_standard_result_raises(timestamped_feedback)

\* the pass that was recorded last and the follow-up frames it obtained
LastPass == Len(iterations)
ObtainedFrames(k) ==
    \E n \in 1..Len(extract_log) :
        extract_log[n].pass = k /\ extract_log[n].returned # << >>
InsideRequests == pc \in {"requests", "expand", "append", "extract"}

\* C21: pass k+1 starts only when reply k asked for more frames, listed at
\* least one frame request and the follow-up extraction returned at least
\* one new frame; in every other case the loop has ended after pass k with
\* no further analyze_images or extractor call, and the result is compiled.
C21_ContinuesOnlyWithNewFrames ==
    /\ \A k \in 2..Len(vision_calls) :
          /\ iterations[k - 1].frame_requests # << >>
          /\ ObtainedFrames(k - 1)
    /\ (pc = "call" /\ iteration >= 1) =>
          /\ parsed.need_more_frames
          /\ parsed.frame_requests # << >>
          /\ current_frames # << >>
    /\ (/\ iterations # << >>
        /\ Len(vision_calls) = LastPass
        /\ ~InsideRequests
        /\ \/ ~parsed.need_more_frames
           \/ parsed.frame_requests = << >>
           \/ ~ObtainedFrames(LastPass))
       => /\ pc \in {"compile", "returned"}
          /\ \A n \in 1..Len(extract_log) :
                extract_log[n].pass = LastPass
                    => (parsed.need_more_frames
                            /\ parsed.frame_requests # << >>)

\* the parser found nothing it could decode in the reply
Unparsed == pc # "parse" /\ parse_out = Sentinel(response)

\* C22: when the reply of pass k cannot be parsed as JSON, the model is not
\* called again: pass k is recorded with the raw reply text as its summary,
\* no frame requests and no feedback, no further model or extractor call is
\* made, and the returned result holds exactly k iterations.
C22_UnparsedReplyEndsLoop ==
    /\ (pc # "parse" /\ ~HasValidJson(response)) => Unparsed
    /\ Unparsed =>
          /\ pc \in {"record", "recorded", "compile", "returned"}
          /\ error = "none"
          /\ Len(vision_calls) = iteration + 1
          /\ \A n \in 1..Len(extract_log) : extract_log[n].pass <= iteration
          /\ Len(fps_log) = 1
          /\ pc # "record" =>
                /\ Len(iterations) = iteration + 1
                /\ iterations[iteration + 1].iteration_number = iteration + 1
                /\ iterations[iteration + 1].response_summary = JText(response)
                /\ iterations[iteration + 1].frame_requests = << >>
                /\ iterations[iteration + 1].feedback_items = << >>
          /\ Returned =>
                /\ final_summary.base = JText(response)
                /\ final_summary.passes = iteration + 1

C22_Witness ==
    /\ Returned
    /\ Unparsed
    /\ iteration = max_iterations - 1
    /\ Len(iterations) = max_iterations
    /\ \E i \in 1..Len(response) : response[i] = "{"
    /\ timestamped_feedback # << >>

\* the timestamps of the frames the extractor returned before the n-th
\* extract_frames_at_timestamps call of the run
ReturnedBeforeCall(n) ==
    Range(initial_frames)
        \cup UNION { Range(extract_log[m].returned) : m \in 1..(n - 1) }

\* C23: no timestamp is extracted twice within one analysis: the timestamps
\* of every extract_frames_at_timestamps call are distinct and none of them
\* is the timestamp of a frame the extractor returned before (initial pass,
\* earlier passes, earlier requests of the same pass); the set of analyzed
\* timestamps holds exactly the returned ones and only grows.
C23_NoTimestampExtractedTwice ==
    /\ [](\A n \in 1..Len(extract_log) :
            /\ Range(extract_log[n].requested) \cap ReturnedBeforeCall(n) = {}
            /\ \A i, j \in 1..Len(extract_log[n].requested) :
                  i # j => extract_log[n].requested[i]
                              # extract_log[n].requested[j])
    /\ [](pc # "start" =>
            all_analyzed_timestamps = ReturnedBeforeCall(Len(extract_log) + 1))
    /\ [][all_analyzed_timestamps \subseteq all_analyzed_timestamps']_vars

C23_Witness ==
    /\ pc = "extract"
    /\ iteration = max_iterations - 1
    /\ \E n \in 1..Len(extract_log) :
          /\ extract_log[n].pass = iteration + 1
          /\ Range(extract_log[n].returned) \cap Range(timestamps) # {}
    /\ \E n \in 1..Len(extract_log) :
          /\ extract_log[n].pass < iteration + 1
          /\ Range(extract_log[n].returned) \cap Range(timestamps) # {}
    /\ Range(initial_frames) \cap Range(timestamps) # {}
    /\ Range(new_timestamps) \cap all_analyzed_timestamps = {}
    /\ Len(new_timestamps) = max_frames_per_request

\* the extract_frames_at_timestamps calls of pass p
CallsOfPass(p) == { n \in 1..Len(extract_log) : extract_log[n].pass = p }

\* C24: follow-up extraction is bounded per pass: at most 3
\* extract_frames_at_timestamps calls are made in a pass (only the first 3
\* requested ranges are served) and each call carries at most
\* max_frames_per_request timestamps, however many ranges and however wide a
\* range the reply requested.
C24_FollowUpExtractionBounded ==
    /\ \A p \in 1..max_iterations :
          Cardinality(CallsOfPass(p)) <= MaxRequestsServed
    /\ \A n \in 1..Len(extract_log) :
          Len(extract_log[n].requested) <= max_frames_per_request
    /\ pc = "extract" =>
          /\ Len(new_timestamps) <= max_frames_per_request
          /\ req_idx <= MaxRequestsServed

C24_Witness ==
    /\ pc = "requests"
    /\ Len(parsed.frame_requests) > MaxRequestsServed
    /\ req_idx = MaxRequestsServed + 1
    /\ Cardinality(CallsOfPass(iteration + 1)) = MaxRequestsServed
    /\ \A n \in CallsOfPass(iteration + 1) :
          Len(extract_log[n].returned) = max_frames_per_request
    /\ Len(timestamps) > max_frames_per_request
    /\ parsed.frame_requests[MaxRequestsServed + 1] = reqWide

\* 0.2 s, the sampling interval at the highest served rate, and the same less
\* the 0.01 s step of the rounding of the listed timestamps
MinInterval == UnitsPerSec \div FpsCap
MinSpacing == MinInterval - UnitsPerCenti
Spaced(ts, gap) == \A i \in 1..(Len(ts) - 1) : ts[i + 1] - ts[i] >= gap
Expanding == pc \in {"expand", "append"}

Inverted(req) == Get(req.end_seconds, 0) < Get(req.start_seconds, 0)

C27_RecordedRequestsCapped ==
    \A k \in 1..Len(iterations) :
        Len(iterations[k].frame_requests) <= MaxRequestsServed

\* the fences of a reply pair up in order: a fence with an even number of
\* fences before it opens a block, the next fence closes it
FencesBefore(toks, i) == { j \in 1..(i - 1) : toks[j] = Fence }
BlockOpenings(toks) ==
    { i \in 1..Len(toks) :
        /\ toks[i] = Fence
        /\ Cardinality(FencesBefore(toks, i)) % 2 = 0
        /\ \E c \in (i + 1)..Len(toks) : toks[c] = Fence }
\* the contents of the block opened at i, without its language tag
BlockContents(toks, i) ==
    LET c == CHOOSE e \in (i + 1)..Len(toks) :
                /\ toks[e] = Fence
                /\ \A f \in (i + 1)..(e - 1) : toks[f] # Fence
    IN  SubSeq(toks, IF toks[i + 1] = JsonTag THEN i + 2 ELSE i + 1, c - 1)
\* the values of the fenced blocks that hold valid JSON
BlockValues(toks) ==
    { json_loads(BlockContents(toks, i)).v :
        i \in { o \in BlockOpenings(toks) :
                  json_loads(BlockContents(toks, o)).ok } }

\* the position of the brace that closes the one opened before i at the
\* given depth, or 0
RECURSIVE MatchClose(_, _, _)
MatchClose(toks, i, depth) ==
    IF i > Len(toks) THEN 0
    ELSE IF toks[i] = "{" THEN MatchClose(toks, i + 1, depth + 1)
    ELSE IF toks[i] = "}"
         THEN IF depth = 1 THEN i ELSE MatchClose(toks, i + 1, depth - 1)
    ELSE MatchClose(toks, i + 1, depth)

\* the first top-level {...} span by brace matching, or << >>
FirstSpan(toks) ==
    LET opens == { i \in 1..Len(toks) : toks[i] = "{" }
        a == CHOOSE i \in opens : \A k \in opens : i <= k
    IN  IF opens = {} THEN << >>
        ELSE IF MatchClose(toks, a + 1, 1) = 0 THEN << >>
        ELSE << SubSeq(toks, a, MatchClose(toks, a + 1, 1)) >>
SpanParses(toks) ==
    FirstSpan(toks) # << >> /\ json_loads(FirstSpan(toks)[1]).ok

\* the reply text after its last fence
AfterFences(toks) ==
    LET fences == { i \in 1..Len(toks) : toks[i] = Fence }
    IN  IF fences = {} THEN toks
        ELSE SubSeq(toks, (CHOOSE i \in fences : \A k \in fences : i >= k) + 1,
                    Len(toks))

\* C28: _parse_response falls through from a strategy that fails to the
\* next one: a reply whose fenced blocks are malformed and are followed by a
\* valid top-level {...} object yields that object; a reply without fences
\* whose first top-level {...} span is valid JSON yields it, whatever brace
\* text follows; the sentinel is returned only when no fenced block and no
\* first top-level span parses.
C28_StrategiesFallThrough ==
    Parsed =>
        /\ (/\ BlockOpenings(response) # {}
            /\ BlockValues(response) = {}
            /\ SpanParses(AfterFences(response)))
           => parse_out = json_loads(FirstSpan(AfterFences(response))[1]).v
        /\ (/\ \A i \in 1..Len(response) : response[i] # Fence
            /\ SpanParses(response))
           => parse_out = json_loads(FirstSpan(response)[1]).v
        /\ parse_out = Sentinel(response)
           => (BlockValues(response) = {} /\ ~SpanParses(response))

\* C29: for every feedback item of a parsed reply an unknown or missing
\* category becomes body_position and an unknown or missing priority becomes
\* secondary, a known one is kept as replied; the item is kept in its place
\* with its observation, and the recorded pass holds as many feedback items
\* as the reply.
C29_UnknownEnumFallsBack ==
    pc # "reply" =>
        /\ error = "none"
        /\ Len(iterations) = 1
        /\ Len(iterations[1].feedback_items) = Len(parsed.feedback)
        /\ \A i \in 1..Len(parsed.feedback) :
              LET raw == parsed.feedback[i]
                  item == iterations[1].feedback_items[i]
              IN  /\ item.description = Get(raw.observation, "")
                  /\ item.category =
                        (IF raw.category # None
                            /\ raw.category[1] \in TechniqueCategory
                         THEN raw.category[1] ELSE "body_position")
                  /\ item.priority =
                        (IF raw.priority # None
                            /\ raw.priority[1] \in FeedbackPriority
                         THEN raw.priority[1] ELSE "secondary")

C29_Witness ==
    /\ Returned
    /\ Len(parsed.feedback) = MaxCompileFeedback
    /\ parsed.feedback[1].category # None
    /\ parsed.feedback[1].category[1] \notin TechniqueCategory
    /\ parsed.feedback[1].priority = None
    /\ parsed.feedback[2].category = None
    /\ parsed.feedback[2].priority # None
    /\ parsed.feedback[2].priority[1] \notin FeedbackPriority
    /\ parsed.feedback[3].priority = Some("refinement")
    /\ iterations[1].feedback_items[3].priority = "refinement"
    /\ iterations[1].feedback_items[1].category = "body_position"
    /\ iterations[1].feedback_items[2].priority = "secondary"

\* position of the first appearance of a feedback item over the passes:
\* passes in order, items of a pass in reply order
Appearances(item) ==
    { <<p, q>> \in (1..Len(iterations)) \X (1..MaxCompileFeedback) :
         /\ q <= Len(iterations[p].feedback_items)
         /\ iterations[p].feedback_items[q] = item }

AppearsBefore(a, b) ==
    \/ a[1] < b[1]
    \/ a[1] = b[1] /\ a[2] <= b[2]

FirstSeen(item) ==
    CHOOSE a \in Appearances(item) :
        \A b \in Appearances(item) : AppearsBefore(a, b)

\* C30: in the compiled feedback list two items of equal priority and equal
\* start keep the order of their first appearance over the iterations: the
\* item of the earlier iteration first, and reply order within an iteration.
C30_TiesKeepFirstAppearanceOrder ==
    Returned =>
        \A i, j \in 1..Len(timestamped_feedback) :
            LET a == timestamped_feedback[i]
                b == timestamped_feedback[j]
            IN  (/\ i < j
                 /\ a.priority = b.priority
                 /\ a.start_seconds = b.start_seconds)
                    => AppearsBefore(FirstSeen(a), FirstSeen(b))

====
